---------------------------- MODULE Spec2Model ----------------------------
(***************************************************************************)
(* State-machine model of the go-lpsensors driver core (LPS331A / LPS25H / *)
(* LPS22H pressure sensors over I2C or SPI).                               *)
(*                                                                         *)
(* One public call is in progress at a time (the driver is single-threaded *)
(* and blocking).  `op` names the public operation, `pc` the position      *)
(* inside it; every bus transaction (conn.Conn.Tx) is one step and is      *)
(* appended to `log` exactly as it is put on the wire.  The environment    *)
(* may cancel the caller's context and let the pending timer expire.       *)
(***************************************************************************)
EXTENDS Integers, Sequences, FiniteSets, TLC

VARIABLES
    handle,   \* TRUE once a constructor has returned a *Dev to the caller
    d,        \* the Dev struct (lpsensors.go:74-86)
    op,       \* public operation in progress or last returned
    pc,       \* position inside the operation, "idle" between calls
    addr,     \* the addr argument of NewI2C (0 outside a constructor)
    opts,     \* the *Opts argument of the constructor / Init in progress
    idByte,   \* chipType[0], the byte the WHO_AM_I read returned
    value,    \* argument `value` of setAndCheckCtrlReg2
    b0,       \* b[0], the byte last read by setAndCheckCtrlReg2
    datum,    \* the [3]byte buffer of sense
    log,      \* bus transactions of the current call, oldest first
    written,  \* a write transaction has been issued since construction began
    cancelledAt, \* "" while the caller's context is live, else where it was
              \* cancelled: "entry" (before the call), the pc of a wait, or
              \* "run" (anywhere else)
    timer,    \* "none" | "armed" | "fired" : the pending time.Timer channel
    e,        \* the caller's *SensorValues
    e0,       \* value of e when the current call began
    ret       \* the error returned by the last call (<<>> is nil)

vars == <<handle, d, op, pc, addr, opts, idByte, value, b0, datum, log, written,
          cancelledAt, timer, e, e0, ret>>

-----------------------------------------------------------------------------
(* Bounds of the model *)

\* at most this many reads of CTRL_REG2 in one setAndCheckCtrlReg2 call
MaxPolls == 3

-----------------------------------------------------------------------------
(* Byte arithmetic *)

Byte == 0..255

RECURSIVE BitAndN(_, _, _)
BitAndN(x, y, n) ==
    IF n = 0 THEN 0
    ELSE (IF x % 2 = 1 /\ y % 2 = 1 THEN 1 ELSE 0)
         + 2 * BitAndN(x \div 2, y \div 2, n - 1)

\* x & y on bytes
BitAnd(x, y) == BitAndN(x, y, 8)

RECURSIVE BitOrN(_, _, _)
BitOrN(x, y, n) ==
    IF n = 0 THEN 0
    ELSE (IF x % 2 = 1 \/ y % 2 = 1 THEN 1 ELSE 0)
         + 2 * BitOrN(x \div 2, y \div 2, n - 1)

\* x | y on bytes
BitOr(x, y) == BitOrN(x, y, 8)

\* x << n on a Go byte (the result is truncated to 8 bits)
Shl(x, n) == (x * (2 ^ n)) % 256

\* x &^ 0x80 on a byte
ClearMSB(x) == x % 128

\* bit 7 of a byte is set
MSBSet(x) == x >= 128

-----------------------------------------------------------------------------
(* 64-bit quantities (physic.Temperature in nK, physic.Pressure in nPa).   *)
(* A magnitude is five base-10000 limbs, least significant first, so every *)
(* value below 10^20 is exact; a quantity is a sign and a magnitude.       *)

LimbIdx == 1..5

\* a magnitude given limb by limb, as the tuple of its limbs
Limbs(f) == <<f[1], f[2], f[3], f[4], f[5]>>

NatOfInt(n) ==
    Limbs([i \in LimbIdx |->
        CASE i = 1 -> n % 10000
          [] i = 2 -> (n \div 10000) % 10000
          [] i = 3 -> n \div 100000000
          [] OTHER -> 0])

NatZero == NatOfInt(0)

RECURSIVE AddCarry(_, _, _)
\* carry into limb i of a + b
AddCarry(a, b, i) ==
    IF i = 1 THEN 0 ELSE (a[i-1] + b[i-1] + AddCarry(a, b, i - 1)) \div 10000

NatAdd(a, b) ==
    Limbs([i \in LimbIdx |-> (a[i] + b[i] + AddCarry(a, b, i)) % 10000])

RECURSIVE SubBorrow(_, _, _)
\* borrow out of limb i-1 of a - b (a >= b)
SubBorrow(a, b, i) ==
    IF i = 1 THEN 0
    ELSE IF a[i-1] - b[i-1] - SubBorrow(a, b, i - 1) < 0 THEN 1 ELSE 0

NatSub(a, b) ==
    Limbs([i \in LimbIdx |-> (a[i] - b[i] - SubBorrow(a, b, i) + 10000) % 10000])

RECURSIVE NatLessFrom(_, _, _)
NatLessFrom(a, b, i) ==
    IF i = 0 THEN FALSE
    ELSE IF a[i] # b[i] THEN a[i] < b[i]
    ELSE NatLessFrom(a, b, i - 1)

NatLess(a, b) == NatLessFrom(a, b, 5)

RECURSIVE MulCarry(_, _, _)
\* carry into limb i of a * k, for a small factor k
MulCarry(a, k, i) ==
    IF i = 1 THEN 0 ELSE (a[i-1] * k + MulCarry(a, k, i - 1)) \div 10000

NatMulSmall(a, k) ==
    Limbs([i \in LimbIdx |-> (a[i] * k + MulCarry(a, k, i)) % 10000])

\* a * 10000^n
NatShift(a, n) == Limbs([i \in LimbIdx |-> IF i - n >= 1 THEN a[i - n] ELSE 0])

RECURSIVE NatMulFrom(_, _, _)
NatMulFrom(a, b, i) ==
    IF i > 5 THEN NatZero
    ELSE NatAdd(NatShift(NatMulSmall(a, b[i]), i - 1), NatMulFrom(a, b, i + 1))

\* a * b by long multiplication
NatMul(a, b) == NatMulFrom(a, b, 1)

RECURSIVE DivRem(_, _, _)
\* remainder left after dividing limbs 5..i of a by the small divisor k
DivRem(a, k, i) ==
    IF i > 5 THEN 0 ELSE (DivRem(a, k, i + 1) * 10000 + a[i]) % k

\* a / k, rounded down
NatDivSmall(a, k) ==
    Limbs([i \in LimbIdx |-> (DivRem(a, k, i + 1) * 10000 + a[i]) \div k])

\* a signed quantity
Q(neg, mag) == [neg |-> neg /\ mag # NatZero, mag |-> mag]

QOfInt(n) == IF n < 0 THEN Q(TRUE, NatOfInt(0 - n)) ELSE Q(FALSE, NatOfInt(n))

QZero == QOfInt(0)

QAdd(x, y) ==
    IF x.neg = y.neg THEN Q(x.neg, NatAdd(x.mag, y.mag))
    ELSE IF NatLess(x.mag, y.mag) THEN Q(y.neg, NatSub(y.mag, x.mag))
    ELSE Q(x.neg, NatSub(x.mag, y.mag))

QMul(x, y) == Q(x.neg # y.neg, NatMul(x.mag, y.mag))

\* Go integer division truncates toward zero
QDivSmall(x, k) == Q(x.neg, NatDivSmall(x.mag, k))

-----------------------------------------------------------------------------
(* Program constants *)

chipLPS331A == 187  \* 0xbb
chipLPS25H == 189   \* 0xbd
chipLPS22H == 177   \* 0xb1

\* MeasurementMode
OneShot == 0
Continuous == 1

\* register 0x0F "Who am I?"
WHO_AM_I == 15

\* 0x2b|0x80 : TEMP_OUT_L with the multi-byte bit
TEMP_OUT == 171

\* 0x28|0x80 : PRESS_OUT_XL with the multi-byte bit
PRESS_OUT == 168

\* physic.Kelvin = physic.Celsius = 10^9 nK
Celsius == NatShift(NatOfInt(10), 2)

\* physic.ZeroCelsius = 273150 * physic.MilliKelvin = 273.15 K
ZeroCelsius == Q(FALSE, NatMul(NatOfInt(273150), NatOfInt(1000000)))

-----------------------------------------------------------------------------
(* Inputs the environment may supply *)

\* addresses passed to NewI2C: the two supported ones and near misses
AddrSamples == {0, 91, 92, 93, 94, 220, 348}

\* bytes a read of CTRL_REG2 may return: all clear, only bits that are no
\* command bit (0x7a), all set
PollBytes == {0, 122, 255}

\* TEMP_OUT_L, TEMP_OUT_H as read from the device
TempSamples == {<<208, 107>>, <<255, 255>>}

\* PRESS_OUT_XL, PRESS_OUT_L, PRESS_OUT_H as read from the device
PressSamples == {<<0, 80, 63>>}

\* an *Opts value: <<>> is nil, <<m>> is &Opts{Mode: m}
Opts(m) == <<m>>

Mode(o) == o[1]

\* the *Opts argument of a constructor
OptsArgs == {<<>>, Opts(OneShot), Opts(Continuous)}

-----------------------------------------------------------------------------
(* Opts *)

DefaultOpts == Opts(Continuous)

-----------------------------------------------------------------------------
(* Register transport (common.go) *)

\* the transaction readReg(reg, b) hands to conn.Conn.Tx, n = len(b)
readReg(dv, reg, n) ==
    IF dv.isSPI
    THEN [w |-> <<reg>> \o [i \in 1..n |-> 0], rn |-> n + 1]
    ELSE [w |-> <<reg>>, rn |-> n]

\* mutant: the cause formatted into the message, not wrapped
readRegErrNoWrap(dv, err) == <<IF dv.isSPI THEN "sr: tx failed" ELSE "ir: tx failed">>

\* the error readReg returns when Tx fails with err
readRegErr(dv, err) == <<IF dv.isSPI THEN "sr" ELSE "ir">> \o err

\* mutant: the RW bit set instead of cleared on SPI
writeCommandsRWSet(dv, b) ==
    IF dv.isSPI
    THEN [w |-> [i \in 1..Len(b) |-> IF i % 2 = 1 THEN BitOr(b[i], 128) ELSE b[i]],
          rn |-> 0]
    ELSE [w |-> b, rn |-> 0]

\* the transaction writeCommands(b) hands to conn.Conn.Tx
writeCommands(dv, b) ==
    IF dv.isSPI
    THEN [w |-> [i \in 1..Len(b) |-> IF i % 2 = 1 THEN ClearMSB(b[i]) ELSE b[i]],
          rn |-> 0]
    ELSE [w |-> b, rn |-> 0]

\* the error writeCommands returns when Tx fails with err
writeCommandsErr(dv, err) == <<IF dv.isSPI THEN "sw" ELSE "iw">> \o err

\* strings.ToLower(d.name)
ToLower(name) ==
    CASE name = "LPS331A" -> "lps331a"
      [] name = "LPS25H" -> "lps25h"
      [] name = "LPS22H" -> "lps22h"
      [] OTHER -> ""

\* d.wrap(err)
wrap(dv, err) == <<ToLower(dv.name)>> \o err

\* the error a failing conn.Conn.Tx returns
TxErr == <<"tx failed">>

\* ctx.Err() of a cancelled context
CtxErr == <<"context canceled">>

\* a transaction as recorded on the bus: the bytes written, the length of
\* the read buffer, whether Tx succeeded, and the data bytes it returned
\* (<<>> for a write, a failure, or data the driver only prints or discards)
Logged(t, ok, rd) ==
    [w |-> t.w, rn |-> t.rn, ok |-> ok, rd |-> IF ok THEN rd ELSE <<>>]

IsWrite(t) == t.rn = 0

IsRead(t) == t.rn > 0

-----------------------------------------------------------------------------
(* Chip identity and register map (lpsensors.go, makeDev) *)

SupportedChips == {chipLPS331A, chipLPS25H, chipLPS22H}

\* mutant: the data rate shifted to the wrong place
initCmdOfShift3(PD, ODRs) == BitOr(Shl(PD, 7), Shl(ODRs, 3))

\* d.initCmd = PD<<7 | ODRs<<4
initCmdOf(PD, ODRs) == BitOr(Shl(PD, 7), Shl(ODRs, 4))

\* mutant: the LPS22H given the register map of the older chips
chipMapOldRegs(id) ==
    CASE id = chipLPS331A ->
           [name |-> "LPS331A", res_conf |-> 16, ctrl_reg1 |-> 32,
            ctrl_reg2 |-> 33, ODRs |-> 6, PD |-> 1]
      [] id = chipLPS25H ->
           [name |-> "LPS25H", res_conf |-> 16, ctrl_reg1 |-> 32,
            ctrl_reg2 |-> 33, ODRs |-> 3, PD |-> 1]
      [] id = chipLPS22H ->
           [name |-> "LPS22H", res_conf |-> 0, ctrl_reg1 |-> 32,
            ctrl_reg2 |-> 33, ODRs |-> 6, PD |-> 0]

\* the switch on chipType[0]: name and register map of a supported chip
chipMap(id) ==
    CASE id = chipLPS331A ->
           [name |-> "LPS331A", res_conf |-> 16, ctrl_reg1 |-> 32,
            ctrl_reg2 |-> 33, ODRs |-> 6, PD |-> 1]
      [] id = chipLPS25H ->
           [name |-> "LPS25H", res_conf |-> 16, ctrl_reg1 |-> 32,
            ctrl_reg2 |-> 33, ODRs |-> 3, PD |-> 1]
      [] id = chipLPS22H ->
           [name |-> "LPS22H", res_conf |-> 0, ctrl_reg1 |-> 16,
            ctrl_reg2 |-> 17, ODRs |-> 6, PD |-> 0]

\* the zero value of Dev with the bus kind the constructor sets
NewDev(isSPI) ==
    [isSPI |-> isSPI, name |-> "", chipType |-> 0, oneshotMode |-> FALSE,
     ctrl_reg1 |-> 0, ctrl_reg2 |-> 0, res_conf |-> 0, initCmd |-> 0]

\* mutant: the LPS22H is given the RES_CONF register of the older chips
ResolvedResConfAlways(dv, id) ==
    LET m == chipMap(id) IN
    [dv EXCEPT !.name = m.name, !.chipType = id,
               !.ctrl_reg1 = m.ctrl_reg1, !.ctrl_reg2 = m.ctrl_reg2,
               !.res_conf = 16, !.initCmd = initCmdOf(m.PD, m.ODRs)]

\* the fields makeDev assigns once the chip is recognised
Resolved(dv, id) ==
    LET m == chipMap(id) IN
    [dv EXCEPT !.name = m.name, !.chipType = id,
               !.ctrl_reg1 = m.ctrl_reg1, !.ctrl_reg2 = m.ctrl_reg2,
               !.res_conf = m.res_conf, !.initCmd = initCmdOf(m.PD, m.ODRs)]

\* mutant: only the low seven bits of the address are compared
addrSupportedLow7(a) == (a % 128) \in {92, 93}

\* NewI2C accepts only these addresses
addrSupported(a) == a \in {92, 93}

-----------------------------------------------------------------------------
(* Raw-to-physical conversion (sense.go, sense) *)

\* rawTemp := int16(datum[1])<<8 | int16(datum[0])
rawTempOf(dat) ==
    LET u == dat[2] * 256 + dat[1] IN IF u >= 32768 THEN u - 65536 ELSE u

\* rawPress := int32(datum[2])<<16 | int32(datum[1])<<8 | int32(datum[0])
rawPressOf(dat) == dat[3] * 65536 + dat[2] * 256 + dat[1]

\* physic.Temperature(rawTemp)*physic.Celsius/k
tempCounts(raw, k) == QDivSmall(QMul(QOfInt(raw), Q(FALSE, Celsius)), k)

\* the switch on d.chipType in sense: the Temperature left in e
temperatureOf(dv, raw, old) ==
    CASE dv.chipType = chipLPS331A ->
           QAdd(QAdd(ZeroCelsius,
                     QDivSmall(QMul(QOfInt(425), Q(FALSE, Celsius)), 10)),
                tempCounts(raw, 480))
      [] dv.chipType = chipLPS22H -> old
      [] dv.chipType = chipLPS25H -> QAdd(ZeroCelsius, tempCounts(raw, 100))
      [] OTHER -> old

\* const c = (1000 * 1000 * 1000 * 100) / 2048
pressC == NatOfInt(48828125)

\* mutant: the division by 2 done before the multiplication
pressureOfDivFirst(raw) == Q(FALSE, NatMul(NatOfInt(raw \div 2), pressC))

\* physic.Pressure(uint64(rawPress) * c / 2)
pressureOf(raw) == Q(FALSE, NatDivSmall(NatMul(NatOfInt(raw), pressC), 2))

-----------------------------------------------------------------------------
(* Initial state: no handle has been constructed yet *)

Init ==
    /\ handle = FALSE
    /\ d = NewDev(FALSE)
    /\ op = "none"
    /\ pc = "idle"
    /\ addr = 0
    /\ opts = <<>>
    /\ idByte = 0
    /\ value = 0
    /\ b0 = 0
    /\ datum = <<0, 0, 0>>
    /\ log = <<>>
    /\ written = FALSE
    /\ cancelledAt = ""
    /\ timer = "none"
    /\ e = [Temperature |-> QZero, Pressure |-> QZero]
    /\ e0 = [Temperature |-> QZero, Pressure |-> QZero]
    /\ ret = <<>>

Constructing == op \in {"NewI2C", "NewSPI"}

\* ctx.Done() is closed
ctxDone == cancelledAt # ""

\* number of reads of CTRL_REG2 the current setAndCheckCtrlReg2 has issued:
\* the transactions after its (last) write
RECURSIVE PollsFrom(_, _)
PollsFrom(l, i) ==
    IF i = 0 \/ IsWrite(l[i]) THEN 0 ELSE 1 + PollsFrom(l, i - 1)

Polls == PollsFrom(log, Len(log))

\* the record of the bus after a poll read t: t is appended, and takes the
\* place of the latest poll once MaxPolls polls are on record
Recorded(l, t) ==
    IF PollsFrom(l, Len(l)) < MaxPolls
    THEN Append(l, t)
    ELSE [l EXCEPT ![Len(l)] = t]

\* the public call returns err to its caller
Return(err) ==
    /\ pc' = "idle"
    /\ ret' = err
    /\ timer' = "none"

\* a constructor returns: the caller gets a handle only with a nil error
ReturnNew(err) ==
    /\ Return(err)
    /\ handle' = (err = <<>>)

-----------------------------------------------------------------------------
(* Constructors (lpsensors.go) *)

NewI2C ==
    /\ pc = "idle" /\ ~handle
    /\ \E a \in AddrSamples, o \in OptsArgs :
         /\ addr' = a
         /\ written' = FALSE
         /\ op' = "NewI2C"
         /\ log' = <<>>
         /\ opts' = o
         /\ cancelledAt' = ""
         /\ idByte' = 0
         /\ IF addrSupported(a)
            THEN /\ d' = NewDev(FALSE)
                 /\ pc' = "makeDev"
                 /\ ret' = <<>>
            ELSE /\ d' = d
                 /\ pc' = "idle"
                 /\ ret' = <<"lps: given address not supported by device">>
    /\ UNCHANGED <<handle, value, b0, datum, timer, e, e0>>

NewSPI ==
    /\ pc = "idle" /\ ~handle
    /\ \E connected \in BOOLEAN, o \in OptsArgs :
         /\ addr' = 0
         /\ written' = FALSE
         /\ op' = "NewSPI"
         /\ log' = <<>>
         /\ opts' = o
         /\ cancelledAt' = ""
         /\ idByte' = 0
         /\ IF connected
            THEN /\ d' = NewDev(TRUE)
                 /\ pc' = "makeDev"
                 /\ ret' = <<>>
            ELSE /\ d' = d
                 /\ pc' = "idle"
                 /\ ret' = <<"lps: connect failed">>
    /\ UNCHANGED <<handle, value, b0, datum, timer, e, e0>>

\* the options makeDev goes on with: DefaultOpts() for nil
makeDevOpts(o) == IF o = <<>> THEN DefaultOpts ELSE o

\* makeDev up to the call of ShowCtrls: WHO_AM_I read, switch on the chip type
makeDev ==
    /\ pc = "makeDev"
    /\ \E ok \in BOOLEAN, id \in Byte :
         /\ log' = Append(log, Logged(readReg(d, WHO_AM_I, 1), ok, <<id>>))
         /\ IF ~ok
            THEN /\ ReturnNew(readRegErr(d, TxErr))
                 /\ UNCHANGED <<d, idByte>>
            ELSE /\ idByte' = id
                 /\ IF id \in SupportedChips
                    THEN /\ d' = Resolved(d, id)
                         /\ pc' = "ShowCtrls1"
                         /\ UNCHANGED <<handle, ret, timer>>
                    ELSE /\ ReturnNew(<<"lps: unexpected chip Type">>)
                         /\ d' = d
    /\ UNCHANGED <<op, opts, value, b0, datum, cancelledAt, e, e0, addr, written>>

-----------------------------------------------------------------------------
(* ShowCtrls (lpsensors.go) *)

\* mutant: makeDev ignores the error of ShowCtrls
ShowCtrlsReturnIgnored(err) ==
    IF Constructing
    THEN pc' = "Init" /\ UNCHANGED <<handle, ret, timer>>
    ELSE Return(err) /\ UNCHANGED handle

\* ShowCtrls returns err: to makeDev, which passes an error on and
\* otherwise calls Init(opts), or to the caller of the public operation
ShowCtrlsReturn(err) ==
    IF Constructing
    THEN IF err = <<>>
         THEN pc' = "Init" /\ UNCHANGED <<handle, ret, timer>>
         ELSE ReturnNew(err)
    ELSE Return(err) /\ UNCHANGED handle

ShowCtrls_reg1 ==
    /\ pc = "ShowCtrls1"
    /\ \E ok \in BOOLEAN :
         /\ log' = Append(log, Logged(readReg(d, d.ctrl_reg1, 1), ok, <<>>))
         /\ IF ok
            THEN pc' = "ShowCtrls2" /\ UNCHANGED <<handle, ret, timer>>
            ELSE ShowCtrlsReturn(
                   wrap(d, <<"ShowCtrls: failed to read CTRL_REG1">>
                           \o readRegErr(d, TxErr)))
    /\ UNCHANGED <<d, op, opts, idByte, value, b0, datum, cancelledAt, e, e0, addr, written>>

ShowCtrls_reg2 ==
    /\ pc = "ShowCtrls2"
    /\ \E ok \in BOOLEAN :
         /\ log' = Append(log, Logged(readReg(d, d.ctrl_reg2, 1), ok, <<>>))
         /\ IF ok
            THEN IF d.res_conf = 0
                 THEN ShowCtrlsReturn(<<>>)
                 ELSE pc' = "ShowCtrls3" /\ UNCHANGED <<handle, ret, timer>>
            ELSE ShowCtrlsReturn(
                   <<"ShowCtrls: failed to read CTRL_REG2">>
                   \o readRegErr(d, TxErr))
    /\ UNCHANGED <<d, op, opts, idByte, value, b0, datum, cancelledAt, e, e0, addr, written>>

ShowCtrls_resconf ==
    /\ pc = "ShowCtrls3"
    /\ \E ok \in BOOLEAN :
         /\ log' = Append(log, Logged(readReg(d, d.res_conf, 1), ok, <<>>))
         /\ IF ok
            THEN ShowCtrlsReturn(<<>>)
            ELSE ShowCtrlsReturn(
                   wrap(d, <<"ShowCtrls: failed to read RES_CONF">>
                           \o readRegErr(d, TxErr)))
    /\ UNCHANGED <<d, op, opts, idByte, value, b0, datum, cancelledAt, e, e0, addr, written>>

\* the public operation
ShowCtrls ==
    /\ pc = "idle" /\ handle
    /\ op' = "ShowCtrls"
    /\ pc' = "ShowCtrls1"
    /\ value' = 0
    /\ b0' = 0
    /\ datum' = <<0, 0, 0>>
    /\ log' = <<>>
    /\ ret' = <<>>
    /\ cancelledAt' = ""
    /\ e0' = e
    /\ addr' = 0
    /\ opts' = <<>>
    /\ UNCHANGED <<handle, d, idByte, timer, e, written>>

-----------------------------------------------------------------------------
(* Init (lpsensors.go) *)

\* mutant: Init never arms one-shot mode
modeAfterInitNever(dv, mode) == dv.oneshotMode

\* the mode flag Init leaves in the handle for opts.Mode
modeAfterInit(dv, mode) == IF mode = OneShot THEN TRUE ELSE dv.oneshotMode

\* mutant: arming one-shot mode also drops the initial control byte
devAfterInitDropsCmd(dv, mode) ==
    [dv EXCEPT !.oneshotMode = modeAfterInit(dv, mode),
               !.initCmd = IF mode = OneShot THEN 0 ELSE dv.initCmd]

\* the Dev as Init leaves it: only the mode flag is assigned
devAfterInit(dv, mode) == [dv EXCEPT !.oneshotMode = modeAfterInit(dv, mode)]

\* Init returns err: to makeDev, whose result it is, or to the caller
InitReturn(err) ==
    IF Constructing THEN ReturnNew(err) ELSE Return(err) /\ UNCHANGED handle

\* the opts Init runs with: makeDev passes its resolved options
InitOpts == IF Constructing THEN makeDevOpts(opts) ELSE opts

\* the body of Init(opts)
Init_body ==
    /\ pc = "Init"
    /\ d' = devAfterInit(d, Mode(InitOpts))
    /\ IF Mode(InitOpts) = OneShot
       THEN /\ InitReturn(<<>>)
            /\ log' = log
            /\ written' = written
       ELSE \E ok \in BOOLEAN :
              /\ written' = TRUE
              /\ log' = Append(log,
                          Logged(writeCommands(d, <<d.ctrl_reg1, d.initCmd>>), ok, <<>>))
              /\ IF ok
                 THEN InitReturn(<<>>)
                 ELSE InitReturn(
                        wrap(d, <<"failed to send init command">>
                                \o writeCommandsErr(d, TxErr)))
    /\ UNCHANGED <<op, opts, idByte, value, b0, datum, cancelledAt, e, e0, addr>>

\* the public operation Init(opts), opts not nil
Dev_Init ==
    /\ pc = "idle" /\ handle
    /\ \E m \in {OneShot, Continuous} : opts' = Opts(m)
    /\ op' = "Init"
    /\ pc' = "Init"
    /\ value' = 0
    /\ b0' = 0
    /\ datum' = <<0, 0, 0>>
    /\ log' = <<>>
    /\ ret' = <<>>
    /\ cancelledAt' = ""
    /\ e0' = e
    /\ addr' = 0
    /\ UNCHANGED <<handle, d, idByte, timer, e, written>>

-----------------------------------------------------------------------------
(* Command-and-Poll: setAndCheckCtrlReg2 (common.go) *)

\* mutant: the loop ends only when the whole register reads zero
flagClearedWholeByte(b, v) == b = 0

\* the test that ends the polling loop: b[0]&value == 0
flagCleared(b, v) == BitAnd(b, v) = 0

\* mutant: Boot returns as soon as the flag has cleared
bootAfterPollReturns == "idle"

\* where Boot goes on after setAndCheckCtrlReg2 returned nil: its select
bootAfterPoll == "Boot_select"

\* setAndCheckCtrlReg2 returns err to Boot, SWReset or measureOneshot
setAndCheckReturn(err) ==
    CASE op = "Boot" ->
           IF err = <<>>
           THEN /\ pc' = bootAfterPoll
                /\ timer' = "armed"
                /\ ret' = ret
           ELSE Return(wrap(d, err))
      [] op = "SWReset" ->
           IF err = <<>>
           THEN Return(<<>>)
           ELSE Return(wrap(d, <<"SWReset: failed">> \o err))
      [] op = "Sense" ->
           IF err = <<>>
           THEN /\ pc' = "sense_temp"
                /\ timer' = "none"
                /\ ret' = ret
           ELSE Return(wrap(d,
                  <<"measureOneshot: failed to set and check ONE_SHOT[0]">> \o err))

\* the write of value to CTRL_REG2, then time.NewTimer(timeout)
setAndCheckCtrlReg2_write ==
    /\ pc = "sac_write"
    /\ \E ok \in BOOLEAN :
         /\ log' = Append(log,
                     Logged(writeCommands(d, <<d.ctrl_reg2, value>>), ok, <<>>))
         /\ IF ok
            THEN /\ pc' = "sac_read"
                 /\ timer' = "armed"
                 /\ ret' = ret
            ELSE setAndCheckReturn(
                   <<"setAndCheckCtrlReg2: failed to write value">>
                   \o writeCommandsErr(d, TxErr))
    /\ written' = TRUE
    /\ UNCHANGED <<handle, d, op, opts, idByte, value, b0, datum, cancelledAt, e, e0, addr>>

\* one iteration of the loop up to the select: read CTRL_REG2, test the
\* flag, timer.Reset(timeout)
\* With window set the record of the bus keeps the latest MaxPolls polls
\* only, and the loop runs on as the code's loop does; without it the model
\* stops the loop after MaxPolls reads.
setAndCheckCtrlReg2_readIn(window) ==
    /\ pc = "sac_read"
    /\ window \/ Polls < MaxPolls
    /\ \E ok \in BOOLEAN, b \in PollBytes :
         /\ log' = Recorded(log, Logged(readReg(d, d.ctrl_reg2, 1), ok, <<b>>))
         /\ IF ~ok
            THEN /\ setAndCheckReturn(
                      <<"setAndCheckCtrlReg2: failed read from CTRL_REG2">>
                      \o readRegErr(d, TxErr))
                 /\ b0' = b0
            ELSE /\ b0' = b
                 /\ IF flagCleared(b, value)
                    THEN setAndCheckReturn(<<>>)
                    ELSE /\ pc' = "sac_select"
                         /\ timer' = "armed"
                         /\ ret' = ret
    /\ UNCHANGED <<handle, d, op, opts, idByte, value, datum, cancelledAt, e, e0, addr, written>>

setAndCheckCtrlReg2_read == setAndCheckCtrlReg2_readIn(FALSE)

\* mutant: the loop starts over at the triggering write
pollAgainFromWrite == "sac_write"

\* where the for loop goes on after the timer case: the read of CTRL_REG2
pollAgain == "sac_read"

\* the select between ctx.Done() and timer.C: one of the ready cases
setAndCheckCtrlReg2_select ==
    /\ pc = "sac_select"
    /\ \/ /\ ctxDone
          /\ setAndCheckReturn(<<"setAndCheckCtrlReg2">> \o CtxErr)
       \/ /\ timer = "fired"
          /\ pc' = pollAgain
          /\ timer' = "none"
          /\ ret' = ret
    /\ UNCHANGED <<handle, d, op, opts, idByte, value, b0, datum, log, cancelledAt, e, e0, addr, written>>

-----------------------------------------------------------------------------
(* Boot (lpsensors.go) *)

Boot ==
    /\ pc = "idle" /\ handle
    /\ op' = "Boot"
    /\ pc' = "sac_write"
    /\ value' = 128
    /\ b0' = 0
    /\ datum' = <<0, 0, 0>>
    /\ log' = <<>>
    /\ ret' = <<>>
    /\ \E c \in BOOLEAN : cancelledAt' = IF c THEN "entry" ELSE ""
    /\ e0' = e
    /\ addr' = 0
    /\ opts' = <<>>
    /\ UNCHANGED <<handle, d, idByte, timer, e, written>>

\* the select between ctx.Done() and time.After(10ms)
Boot_select ==
    /\ pc = "Boot_select"
    /\ \/ /\ ctxDone
          /\ Return(wrap(d, CtxErr))
       \/ /\ timer = "fired"
          /\ Return(<<>>)
    /\ UNCHANGED <<handle, d, op, opts, idByte, value, b0, datum, log, cancelledAt, e, e0, addr, written>>

-----------------------------------------------------------------------------
(* SWReset and swResetLPS331 *)

\* waitCancel(ctx, t): the error it returns, by the case the select takes
waitCancel(takeDone) == IF takeDone THEN CtxErr ELSE <<>>

\* mutant: every chip is reset through setAndCheckCtrlReg2
swResetEntryPollAll(chipType) ==
    CASE chipType \in {chipLPS331A, chipLPS22H, chipLPS25H} -> "sac_write"
      [] OTHER -> "idle"

\* the switch on d.chipType in SWReset: where the call goes on
swResetEntry(chipType) ==
    CASE chipType = chipLPS331A -> "swr_set"
      [] chipType \in {chipLPS22H, chipLPS25H} -> "sac_write"
      [] OTHER -> "idle"

SWReset ==
    /\ pc = "idle" /\ handle
    /\ op' = "SWReset"
    /\ log' = <<>>
    /\ b0' = 0
    /\ datum' = <<0, 0, 0>>
    /\ \E c \in BOOLEAN : cancelledAt' = IF c THEN "entry" ELSE ""
    /\ e0' = e
    /\ pc' = swResetEntry(d.chipType)
    /\ CASE d.chipType = chipLPS331A ->
              /\ value' = 0
              /\ ret' = <<>>
         [] d.chipType \in {chipLPS22H, chipLPS25H} ->
              /\ value' = 4
              /\ ret' = <<>>
         [] OTHER ->
              /\ value' = 0
              /\ ret' = wrap(d, <<"SWReset: unknown device type">>)
    /\ addr' = 0
    /\ opts' = <<>>
    /\ UNCHANGED <<handle, d, idByte, timer, e, written>>

\* write the SWRESET bit, then time.NewTimer(5ms)
swResetLPS331_set ==
    /\ pc = "swr_set"
    /\ \E ok \in BOOLEAN :
         /\ log' = Append(log, Logged(writeCommands(d, <<d.ctrl_reg2, 4>>), ok, <<>>))
         /\ IF ok
            THEN /\ pc' = "swr_wait1"
                 /\ timer' = "armed"
                 /\ ret' = ret
            ELSE Return(<<"swResetLPS331: failed to write SWReset command">>
                        \o writeCommandsErr(d, TxErr))
    /\ written' = TRUE
    /\ UNCHANGED <<handle, d, op, opts, idByte, value, b0, datum, cancelledAt, e, e0, addr>>

swResetLPS331_wait1 ==
    /\ pc = "swr_wait1"
    /\ \E takeDone \in BOOLEAN :
         /\ IF takeDone THEN ctxDone ELSE timer = "fired"
         /\ IF waitCancel(takeDone) = <<>>
            THEN /\ pc' = "swr_clear"
                 /\ timer' = "none"
                 /\ ret' = ret
            ELSE Return(<<"swResetLPS331: failed to wait process SWRESET">>
                        \o waitCancel(takeDone))
    /\ UNCHANGED <<handle, d, op, opts, idByte, value, b0, datum, log, cancelledAt, e, e0, addr, written>>

\* write 0 to CTRL_REG2, then timer.Reset(5ms)
swResetLPS331_clear ==
    /\ pc = "swr_clear"
    /\ \E ok \in BOOLEAN :
         /\ log' = Append(log, Logged(writeCommands(d, <<d.ctrl_reg2, 0>>), ok, <<>>))
         /\ IF ok
            THEN /\ pc' = "swr_wait2"
                 /\ timer' = "armed"
                 /\ ret' = ret
            ELSE Return(<<"swResetLPS331: failed to clear SWReset command">>
                        \o writeCommandsErr(d, TxErr))
    /\ written' = TRUE
    /\ UNCHANGED <<handle, d, op, opts, idByte, value, b0, datum, cancelledAt, e, e0, addr>>

swResetLPS331_wait2 ==
    /\ pc = "swr_wait2"
    /\ \E takeDone \in BOOLEAN :
         /\ IF takeDone THEN ctxDone ELSE timer = "fired"
         /\ IF waitCancel(takeDone) = <<>>
            THEN /\ pc' = "swr_discard"
                 /\ timer' = "none"
                 /\ ret' = ret
            ELSE Return(<<"swResetLPS331: failed to wait clearing SWRESET">>
                        \o waitCancel(takeDone))
    /\ UNCHANGED <<handle, d, op, opts, idByte, value, b0, datum, log, cancelledAt, e, e0, addr, written>>

\* read and discard PRESS_OUT and TEMP_OUT
swResetLPS331_discard ==
    /\ pc = "swr_discard"
    /\ \E ok \in BOOLEAN :
         /\ log' = Append(log, Logged(readReg(d, PRESS_OUT, 5), ok, <<>>))
         /\ IF ok
            THEN Return(<<>>)
            ELSE Return(<<"swResetLPS331: failed to discard STATUS_REG">>
                        \o readRegErr(d, TxErr))
    /\ UNCHANGED <<handle, d, op, opts, idByte, value, b0, datum, cancelledAt, e, e0, addr, written>>

-----------------------------------------------------------------------------
(* Sense, measureOneshot and sense (sense.go) *)

\* mutant: the two averaging codes exchanged
resConfCmdSwapped(chipType) ==
    CASE chipType = chipLPS25H -> 122
      [] chipType = chipLPS331A -> 15
      [] OTHER -> 0

\* the averaging code measureOneshot writes to RES_CONF
resConfCmd(chipType) ==
    CASE chipType = chipLPS25H -> 15    \* 0b00001111
      [] chipType = chipLPS331A -> 122  \* 0b01111010
      [] OTHER -> 0

\* PD=1 and BDU=1 : 0b10000100
powerUpCmd == 132

\* mutant: the one-shot sub-protocol runs in every mode
senseEntryAlwaysOneshot(dv) == "mo_powerdown"

\* where Sense starts: the one-shot sub-protocol or the reads
senseEntry(dv) == IF dv.oneshotMode THEN "mo_powerdown" ELSE "sense_temp"

Sense ==
    /\ pc = "idle" /\ handle
    /\ op' = "Sense"
    /\ pc' = senseEntry(d)
    /\ value' = 0
    /\ b0' = 0
    /\ datum' = <<0, 0, 0>>
    /\ log' = <<>>
    /\ ret' = <<>>
    /\ \E c \in BOOLEAN : cancelledAt' = IF c THEN "entry" ELSE ""
    /\ e0' = e
    /\ addr' = 0
    /\ opts' = <<>>
    /\ UNCHANGED <<handle, d, idByte, timer, e, written>>

\* power down the device: write 0 to CTRL_REG1
measureOneshot_powerdown ==
    /\ pc = "mo_powerdown"
    /\ \E ok \in BOOLEAN :
         /\ log' = Append(log, Logged(writeCommands(d, <<d.ctrl_reg1, 0>>), ok, <<>>))
         /\ IF ok
            THEN /\ IF d.res_conf # 0
                    THEN IF d.chipType \in {chipLPS25H, chipLPS331A}
                         THEN pc' = "mo_resconf" /\ ret' = ret
                         ELSE /\ pc' = "idle"
                              /\ ret' = wrap(d, <<"measureOneshot: unknown chip type">>)
                    ELSE pc' = "mo_powerup" /\ ret' = ret
                 /\ timer' = timer
            ELSE Return(wrap(d, <<"measureOneshot: failed to clear CTRL_REG1">>
                                \o writeCommandsErr(d, TxErr)))
    /\ written' = TRUE
    /\ UNCHANGED <<handle, d, op, opts, idByte, value, b0, datum, cancelledAt, e, e0, addr>>

\* set the averaging: write the code to RES_CONF
measureOneshot_resconf ==
    /\ pc = "mo_resconf"
    /\ \E ok \in BOOLEAN :
         /\ log' = Append(log,
                     Logged(writeCommands(d, <<d.res_conf, resConfCmd(d.chipType)>>),
                            ok, <<>>))
         /\ IF ok
            THEN pc' = "mo_powerup" /\ UNCHANGED <<ret, timer>>
            ELSE Return(wrap(d, <<"measureOneshot: failed to write cmd">>
                                \o writeCommandsErr(d, TxErr)))
    /\ written' = TRUE
    /\ UNCHANGED <<handle, d, op, opts, idByte, value, b0, datum, cancelledAt, e, e0, addr>>

\* power up in one-shot mode, then call setAndCheckCtrlReg2(ctx, 0b1)
measureOneshot_powerup ==
    /\ pc = "mo_powerup"
    /\ \E ok \in BOOLEAN :
         /\ log' = Append(log,
                     Logged(writeCommands(d, <<d.ctrl_reg1, powerUpCmd>>), ok, <<>>))
         /\ IF ok
            THEN /\ pc' = "sac_write"
                 /\ value' = 1
                 /\ UNCHANGED <<ret, timer>>
            ELSE /\ Return(wrap(d, <<"measureOneshot: failed to start ONE_SHOT command">>
                                   \o writeCommandsErr(d, TxErr)))
                 /\ value' = value
    /\ written' = TRUE
    /\ UNCHANGED <<handle, d, op, opts, idByte, b0, datum, cancelledAt, e, e0, addr>>

\* read TEMP_OUT and store the temperature in e
sense_tempOn(samples) ==
    /\ pc = "sense_temp"
    /\ \E ok \in BOOLEAN, dat \in samples :
         /\ log' = Append(log, Logged(readReg(d, TEMP_OUT, 2), ok, dat))
         /\ IF ok
            THEN /\ datum' = <<dat[1], dat[2], datum[3]>>
                 /\ e' = [e EXCEPT !.Temperature =
                            temperatureOf(d, rawTempOf(dat), e.Temperature)]
                 /\ pc' = "sense_press"
                 /\ UNCHANGED <<ret, timer>>
            ELSE /\ Return(wrap(d, <<"sense: failed to read TEMP_OUT">>
                                   \o readRegErr(d, TxErr)))
                 /\ UNCHANGED <<datum, e>>
    /\ UNCHANGED <<handle, d, op, opts, idByte, value, b0, cancelledAt, e0, addr, written>>

\* read PRESS_OUT and store the pressure in e
sense_pressOn(samples) ==
    /\ pc = "sense_press"
    /\ \E ok \in BOOLEAN, dat \in samples :
         /\ log' = Append(log, Logged(readReg(d, PRESS_OUT, 3), ok, dat))
         /\ IF ok
            THEN /\ datum' = dat
                 /\ e' = [e EXCEPT !.Pressure = pressureOf(rawPressOf(dat))]
                 /\ Return(<<>>)
            ELSE /\ Return(wrap(d, <<"sense: failed to read PRESS_OUT">>
                                   \o readRegErr(d, TxErr)))
                 /\ UNCHANGED <<datum, e>>
    /\ UNCHANGED <<handle, d, op, opts, idByte, value, b0, cancelledAt, e0, addr, written>>

sense_temp == sense_tempOn(TempSamples)

sense_press == sense_pressOn(PressSamples)

-----------------------------------------------------------------------------
(* Environment: the caller's context and the runtime's timer *)

\* the positions at which a call waits in a select
WaitPcs == {"sac_select", "Boot_select", "swr_wait1", "swr_wait2"}

\* the caller cancels the context of the call in progress
Cancel ==
    /\ pc # "idle"
    /\ op \in {"Boot", "SWReset", "Sense"}
    /\ ~ctxDone
    /\ cancelledAt' = IF pc \in WaitPcs THEN pc ELSE "run"
    /\ UNCHANGED <<handle, d, op, pc, opts, idByte, value, b0, datum, log, timer, e, e0, ret, addr, written>>

\* the pending timer expires: a value is ready on its channel
TimerFire ==
    /\ timer = "armed"
    /\ timer' = "fired"
    /\ UNCHANGED <<handle, d, op, pc, opts, idByte, value, b0, datum, log, cancelledAt, e, e0, ret, addr, written>>

-----------------------------------------------------------------------------

Next ==
    \/ NewI2C
    \/ NewSPI
    \/ makeDev
    \/ ShowCtrls
    \/ ShowCtrls_reg1
    \/ ShowCtrls_reg2
    \/ ShowCtrls_resconf
    \/ Dev_Init
    \/ Init_body
    \/ Boot
    \/ Boot_select
    \/ SWReset
    \/ swResetLPS331_set
    \/ swResetLPS331_wait1
    \/ swResetLPS331_clear
    \/ swResetLPS331_wait2
    \/ swResetLPS331_discard
    \/ setAndCheckCtrlReg2_write
    \/ setAndCheckCtrlReg2_read
    \/ setAndCheckCtrlReg2_select
    \/ Sense
    \/ measureOneshot_powerdown
    \/ measureOneshot_resconf
    \/ measureOneshot_powerup
    \/ sense_temp
    \/ sense_press
    \/ Cancel
    \/ TimerFire

Spec == Init /\ [][Next]_vars

-----------------------------------------------------------------------------
(* The conversions of sense over a wider range of register contents: a     *)
(* Sense call on a handle constructed in continuous mode, given a reading  *)
(* by the caller that may already hold values.                             *)

\* register bytes: the ends of the range, the sign bit, an odd value and the
\* bytes of the readings 0x6bd0 and 0x3f5000
TempWide == {<<lo, hi>> : lo \in {0, 1, 208, 255}, hi \in {0, 107, 127, 128, 255}}

PressWide == {<<xl, l, h>> : xl \in {0, 1, 255}, l \in {0, 80, 255}, h \in {0, 63, 128, 255}}

\* the *SensorValues the caller passes: fresh, or holding 300 K and 1 Pa
PriorReadings ==
    {[Temperature |-> QZero, Pressure |-> QZero],
     [Temperature |-> Q(FALSE, NatMul(NatOfInt(300000), NatOfInt(1000000))),
      Pressure |-> Q(FALSE, NatShift(NatOfInt(10), 2))]}

SenseInit ==
    /\ handle = TRUE
    /\ \E spi \in BOOLEAN, id \in SupportedChips :
         /\ d = Resolved(NewDev(spi), id)
         /\ idByte = id
    /\ op = "Sense"
    /\ pc = senseEntry(d)
    /\ addr = 0
    /\ opts = <<>>
    /\ value = 0
    /\ b0 = 0
    /\ datum = <<0, 0, 0>>
    /\ log = <<>>
    /\ written = TRUE
    /\ cancelledAt = ""
    /\ timer = "none"
    /\ e \in PriorReadings
    /\ e0 = e
    /\ ret = <<>>

sense_tempWide == sense_tempOn(TempWide)

sense_pressWide == sense_pressOn(PressWide)

SenseNext ==
    \/ sense_tempWide
    \/ sense_pressWide

SenseSpec == SenseInit /\ [][SenseNext]_vars

-----------------------------------------------------------------------------
(* Command-and-Poll without the bound on the number of polls: a Boot, or a *)
(* SWReset of an LPS25H or LPS22H, has just been called on a constructed    *)
(* handle.  The runtime lets a ready goroutine run and an armed timer       *)
(* expire (weak fairness); a select with several ready cases picks one at   *)
(* random, so a case that is ready again and again is taken (strong         *)
(* fairness on the cancellation case).                                      *)

PollInit ==
    /\ handle = TRUE
    /\ \E spi \in BOOLEAN, id \in SupportedChips, m \in BOOLEAN :
         /\ d = [Resolved(NewDev(spi), id) EXCEPT !.oneshotMode = m]
         /\ idByte = id
    /\ \/ op = "Boot" /\ value = 128
       \/ op = "SWReset" /\ value = 4 /\ d.chipType \in {chipLPS22H, chipLPS25H}
    /\ pc = "sac_write"
    /\ addr = 0
    /\ opts = <<>>
    /\ b0 = 0
    /\ datum = <<0, 0, 0>>
    /\ log = <<>>
    /\ written \in BOOLEAN
    /\ cancelledAt \in {"", "entry"}
    /\ timer = "none"
    /\ e = [Temperature |-> QZero, Pressure |-> QZero]
    /\ e0 = e
    /\ ret = <<>>

\* mutant: the loop gives up after MaxPolls polls
setAndCheckCtrlReg2_readLimited ==
    IF Polls < MaxPolls
    THEN setAndCheckCtrlReg2_readIn(TRUE)
    ELSE /\ pc = "sac_read"
         /\ setAndCheckReturn(<<"setAndCheckCtrlReg2: retry limit">>)
         /\ UNCHANGED <<handle, d, op, opts, idByte, value, b0, datum, log,
                        cancelledAt, e, e0, addr, written>>

setAndCheckCtrlReg2_readAll == setAndCheckCtrlReg2_readIn(TRUE)

\* the select takes the case <-ctx.Done()
setAndCheckCtrlReg2_selectDone == setAndCheckCtrlReg2_select /\ pc' # pollAgain

PollNext ==
    \/ setAndCheckCtrlReg2_write
    \/ setAndCheckCtrlReg2_readAll
    \/ setAndCheckCtrlReg2_select
    \/ Boot_select
    \/ Cancel
    \/ TimerFire

PollSpec ==
    /\ PollInit
    /\ [][PollNext]_vars
    /\ WF_vars(setAndCheckCtrlReg2_write)
    /\ WF_vars(setAndCheckCtrlReg2_readAll)
    /\ WF_vars(setAndCheckCtrlReg2_select)
    /\ SF_vars(setAndCheckCtrlReg2_selectDone)
    /\ WF_vars(TimerFire)

-----------------------------------------------------------------------------
(* The bus as the properties see it *)

\* a transaction by kind: a write with its bytes, or a read with the
\* register byte sent and the number of data bytes asked for
Abs(t) ==
    IF t.rn = 0
    THEN <<"w", t.w>>
    ELSE <<"r", t.w[1], IF d.isSPI THEN t.rn - 1 ELSE t.rn>>

AbsLog == [i \in 1..Len(log) |-> Abs(log[i])]

W(reg, val) == <<"w", <<reg, val>>>>

R(reg, n) == <<"r", reg, n>>

IsPrefix(a, b) == Len(a) <= Len(b) /\ a = SubSeq(b, 1, Len(a))

Returned == pc = "idle"

Succeeded == pc = "idle" /\ ret = <<>>

\* the register map of the datasheets, by WHO_AM_I value
Primary == IF d.chipType = 177 THEN 16 ELSE 32

Secondary == IF d.chipType = 177 THEN 17 ELSE 33

HasResConf == d.chipType \in {187, 189}

AveragingCode == IF d.chipType = 187 THEN 122 ELSE 15

\* the trigger write and k polls of a Command-and-Poll with this mask
PollSeq(mask, k) == <<W(Secondary, mask)>> \o [i \in 1..k |-> R(Secondary, 1)]

ReadSeq == <<R(171, 2), R(168, 3)>>

-----------------------------------------------------------------------------
(* C1 *)

OneShotSeq(k) ==
    <<W(Primary, 0)>>
    \o (IF HasResConf THEN <<W(16, AveragingCode)>> ELSE <<>>)
    \o <<W(Primary, 132)>>
    \o PollSeq(1, k)
    \o ReadSeq

\* C1: a Sense on a one-shot handle issues, in this order and with nothing
\* else in between: write 0 to the primary control register; on LPS331A and
\* LPS25H only, one write of the averaging code to the resolution register;
\* write 0b10000100 to the primary control register; write 0x01 to the
\* secondary control register; one or more reads of it, each but the last
\* showing bit 0 set and the last showing it clear; the 2-byte temperature
\* read from 0x2B|0x80; the 3-byte pressure read from 0x28|0x80.
C1_OneShotOrder ==
    (op = "Sense" /\ d.oneshotMode) =>
        /\ \E k \in 1..MaxPolls :
             /\ IsPrefix(AbsLog, OneShotSeq(k))
             /\ Succeeded => AbsLog = OneShotSeq(k)
        /\ \A i \in 1..(Len(log) - 1) :
             (AbsLog[i] = R(Secondary, 1) /\ log[i].ok) =>
                 IF log[i].rd[1] % 2 = 1
                 THEN AbsLog[i + 1] = R(Secondary, 1)
                 ELSE AbsLog[i + 1] = R(171, 2)

\* a one-shot Sense on an LPS331A that polled twice and succeeded
C1_Witness ==
    /\ op = "Sense" /\ d.oneshotMode /\ Succeeded
    /\ d.chipType = 187
    /\ Len(log) = 8

-----------------------------------------------------------------------------
(* C2 *)

SacPcs == {"sac_write", "sac_read", "sac_select"}

\* the latest transaction
LastTx == log[Len(log)]

\* this step is a read of CTRL_REG2 by the polling loop that succeeded
PollReadStep ==
    /\ pc = "sac_read"
    /\ Len(log') = Len(log) + 1
    /\ LastTx'.ok

\* this step takes the call out of setAndCheckCtrlReg2 with a nil error
SacSuccessStep ==
    \/ pc' \in {"Boot_select", "sense_temp"}
    \/ pc' = "idle" /\ ret' = <<>>

\* a step of setAndCheckCtrlReg2 returns success exactly if it is a read
\* that shows the flag clear
C2_Step ==
    pc \in SacPcs =>
        (SacSuccessStep <=>
            (PollReadStep /\ BitAnd(LastTx'.rd[1], value) = 0))

\* C2: Command-and-Poll returns success in exactly those steps that read
\* the secondary control register and get a byte b with (b & bitMask) = 0,
\* whatever the other bits of b are; it returns success at no other step.
C2_PollEndsOnClear == [][C2_Step]_vars

\* Boot's Command-and-Poll succeeded on its second read, which returned
\* 0x7a: bits set, none of them the BOOT bit
C2_Witness ==
    /\ op = "Boot" /\ pc = "Boot_select"
    /\ Len(log) = 3
    /\ log[3].rd = <<122>>

-----------------------------------------------------------------------------
(* C3 *)

IsCancelErr(r) == r # <<>> /\ r[Len(r)] = "context canceled"

\* a step that leaves a poll wait during which the context was cancelled
\* returns a cancellation error and issues no transaction
C3_Step ==
    (pc = "sac_select" /\ cancelledAt = "sac_select" /\ pc' # pc) =>
        (pc' = "idle" /\ IsCancelErr(ret') /\ log' = log)

\* C3: once the context has been cancelled during the wait between two
\* poll reads, the call leaves the wait only by returning a cancellation
\* error, with no further bus transaction.
C3_CancelInWaitStops == [][C3_Step]_vars

-----------------------------------------------------------------------------
(* C4 *)

\* C4: when Sense returns an error, both fields of the caller's reading
\* hold the values they held before the call.
C4_FailedSenseKeepsOutput ==
    (op = "Sense" /\ Returned /\ ret # <<>>) => e = e0

-----------------------------------------------------------------------------
(* C5 *)

\* C5: after a successful Init the handle's mode is the one that call
\* asked for.
C5_ModeFollowsInit ==
    (handle /\ op = "Init" /\ Succeeded) =>
        (d.oneshotMode <=> Mode(opts) = OneShot)

-----------------------------------------------------------------------------
(* C6 *)

\* the initial control byte of the datasheets, by WHO_AM_I value
InitByte ==
    CASE d.chipType = 187 -> 224
      [] d.chipType = 189 -> 176
      [] d.chipType = 177 -> 96

Writes == {i \in 1..Len(log) : IsWrite(log[i])}

\* C6: Init in continuous mode issues one transaction, the write of
\* (primary control register, initial control byte); a constructor given nil
\* or DefaultOpts() issues that write as its only write and its last
\* transaction.
C6_ContinuousInitOneWrite ==
    /\ (op = "Init" /\ Returned /\ Mode(opts) = Continuous) =>
           AbsLog = <<W(Primary, InitByte)>>
    /\ (Constructing /\ opts \in {<<>>, <<Continuous>>}) =>
           /\ Writes \subseteq {Len(log)}
           /\ \A i \in Writes : AbsLog[i] = W(Primary, InitByte)
           /\ handle => Writes = {Len(log)}

\* NewI2C(bus, 0x5c, nil) on an LPS331A has returned a handle after writing
\* 0xe0 to register 0x20
C6_Witness ==
    /\ op = "NewI2C" /\ handle /\ Returned
    /\ opts = <<>>
    /\ d.chipType = 187
    /\ Len(log) = 5
    /\ AbsLog[5] = W(32, 224)

-----------------------------------------------------------------------------
(* C7 *)

\* C7: a Sense on a handle in continuous mode issues the 2-byte temperature
\* read and then the 3-byte pressure read, and nothing else.
C7_ContinuousSenseTwoReads ==
    (op = "Sense" /\ ~d.oneshotMode) =>
        /\ IsPrefix(AbsLog, ReadSeq)
        /\ Succeeded => AbsLog = ReadSeq

C7_Witness ==
    /\ op = "Sense" /\ ~d.oneshotMode /\ Succeeded
    /\ Len(log) = 2
    /\ \A i \in 1..2 : IsRead(log[i])

-----------------------------------------------------------------------------
(* C8 *)

\* the register map and initial control byte the datasheets give an id
MapOf(id) ==
    CASE id = 187 -> <<32, 33, 16, 224>>
      [] id = 189 -> <<32, 33, 16, 176>>
      [] id = 177 -> <<16, 17, 0, 96>>

DevMap == <<d.ctrl_reg1, d.ctrl_reg2, d.res_conf, d.initCmd>>

\* C8: construction reads one byte from 0x0F, once; 0xBB, 0xBD and 0xB1
\* select their register map and initial control byte; any other byte ends
\* construction with the unsupported-chip error and no handle.
C8_ChipIdentity ==
    /\ (Constructing /\ log # <<>>) =>
           /\ AbsLog[1] = R(15, 1)
           /\ \A i \in 2..Len(log) : AbsLog[i] # R(15, 1)
           /\ log[1].ok =>
                IF log[1].rd[1] \in {187, 189, 177}
                THEN d.chipType = log[1].rd[1] /\ DevMap = MapOf(log[1].rd[1])
                ELSE /\ Returned /\ ~handle
                     /\ Len(log) = 1
                     /\ ret = <<"lps: unexpected chip Type">>
    /\ handle => (d.chipType \in {187, 189, 177} /\ DevMap = MapOf(d.chipType))

\* construction ended on the id byte 0xbc
C8_Witness ==
    /\ Constructing /\ Returned /\ ~handle
    /\ Len(log) = 1
    /\ log[1].rd = <<188>>

-----------------------------------------------------------------------------
(* C9 *)

\* C9: NewI2C with an address other than 0x5C and 0x5D returns an error
\* and no handle without a bus transaction; with 0x5C or 0x5D its first
\* transaction is the identification read.
C9_AddressCheck ==
    op = "NewI2C" =>
        IF addr \in {92, 93}
        THEN pc # "makeDev" => (log # <<>> /\ AbsLog[1] = R(15, 1))
        ELSE Returned /\ ~handle /\ ret # <<>> /\ log = <<>>

\* NewI2C was given 0xdc (0x5c with bit 7 set) and refused it
C9_Witness ==
    /\ op = "NewI2C" /\ Returned
    /\ addr = 220
    /\ ret # <<>>

-----------------------------------------------------------------------------
(* C10 *)

\* Init(OneShot) issues no transaction and arms one-shot mode
C10_InitOneShotSilent ==
    (op = "Init" /\ Returned /\ Mode(opts) = OneShot) =>
        (log = <<>> /\ ret = <<>> /\ d.oneshotMode)

\* a constructor given OneShot issues reads only
C10_OneShotConstructionReadsOnly ==
    (Constructing /\ opts = <<OneShot>>) =>
        (~written /\ \A i \in 1..Len(log) : IsRead(log[i]))

\* the first write to a constructed handle is issued by one of ops
C10_FirstWriteIn(ops) == (handle /\ ~written /\ written') => op \in ops

\* C10 as stated: Init(OneShot) issues no bus transaction and arms one-shot
\* mode, construction in OneShot mode issues reads only, and the first
\* write to such a handle is issued by a later Boot, SWReset or Sense.
C10_Original ==
    /\ [](C10_InitOneShotSilent /\ C10_OneShotConstructionReadsOnly)
    /\ [][C10_FirstWriteIn({"Boot", "SWReset", "Sense"})]_vars

\* C10 amended: Init(OneShot) issues no bus transaction and arms one-shot
\* mode, construction in OneShot mode issues reads only, and the first
\* write to such a handle is issued by a later Init(Continuous), Boot,
\* SWReset or Sense.
C10_FirstWriteLater ==
    /\ [](C10_InitOneShotSilent /\ C10_OneShotConstructionReadsOnly)
    /\ [][C10_FirstWriteIn({"Init", "Boot", "SWReset", "Sense"})]_vars

\* Init(OneShot) has returned on a handle that no write has reached yet
C10_Witness ==
    /\ handle /\ op = "Init" /\ Returned
    /\ Mode(opts) = OneShot
    /\ ~written

-----------------------------------------------------------------------------
(* C11 *)

SWResetSeq == <<W(Secondary, 4), W(Secondary, 0), R(168, 5)>>

\* the transactions issued at each position of the LPS331A reset
C11_Order ==
    (op = "SWReset" /\ d.chipType = 187) =>
        /\ IsPrefix(AbsLog, SWResetSeq)
        /\ Succeeded => AbsLog = SWResetSeq
        /\ pc \notin SacPcs
        /\ pc \in {"swr_wait1", "swr_clear"} => (Len(log) = 1 /\ log[1].ok)
        /\ pc \in {"swr_wait2", "swr_discard"} => (Len(log) = 2 /\ log[2].ok)

\* a wait of the LPS331A reset is left towards the next transaction only
\* when its timer has expired, and issues no transaction itself
C11_WaitStep ==
    (pc \in {"swr_wait1", "swr_wait2"} /\ pc' # pc) =>
        /\ log' = log
        /\ pc' # "idle" => timer = "fired"

\* C11: SWReset on an LPS331A issues, in this order and with nothing else:
\* write (secondary control register, 0b100); a wait; write (secondary
\* control register, 0); a wait; one 5-byte read from 0x28|0x80.  It never
\* reads the secondary control register and never enters Command-and-Poll.
C11_SWReset331Sequence == []C11_Order /\ [][C11_WaitStep]_vars

\* an LPS331A reset that succeeded after its three transactions
C11_Witness ==
    /\ op = "SWReset" /\ d.chipType = 187 /\ Succeeded
    /\ Len(log) = 3
    /\ cancelledAt = ""

-----------------------------------------------------------------------------
(* C12 *)

\* positions of the one-shot trigger write in the log
Triggers == {i \in 1..Len(log) : AbsLog[i] = W(Secondary, 1)}

\* C12: Boot (mask 0x80), SWReset on LPS25H and LPS22H (mask 0x04) and the
\* one-shot trigger of Sense (mask 0x01) write their mask to the secondary
\* control register once; every later transaction of that Command-and-Poll
\* is a 1-byte read of the secondary control register, and the write is not
\* issued again.
C12_TriggerWrittenOnce ==
    /\ op = "Boot" => IsPrefix(AbsLog, PollSeq(128, MaxPolls))
    /\ (op = "SWReset" /\ d.chipType \in {189, 177}) =>
           IsPrefix(AbsLog, PollSeq(4, MaxPolls))
    /\ (op = "Sense" /\ d.oneshotMode) =>
           /\ Cardinality(Triggers) <= 1
           /\ pc \in {"sac_read", "sac_select"} => Triggers # {}
           /\ \A i \in Triggers : \E k \in 0..MaxPolls :
                  IsPrefix(SubSeq(AbsLog, i, Len(log)), PollSeq(1, k) \o ReadSeq)
    /\ pc \in {"sac_read", "sac_select"} =>
           /\ log # <<>>
           /\ \E i \in 1..Len(log) :
                  /\ AbsLog[i] = W(Secondary, value)
                  /\ \A j \in (i + 1)..Len(log) : AbsLog[j] = R(Secondary, 1)

\* Boot went on after three polls that followed its single write
C12_Witness ==
    /\ op = "Boot" /\ pc = "Boot_select"
    /\ Len(log) = 4
    /\ AbsLog[1] = W(Secondary, 128)
    /\ \A j \in 2..4 : AbsLog[j] = R(Secondary, 1)

-----------------------------------------------------------------------------
(* C13 *)

\* the three pressure bytes the successful Sense read
PressBytes == log[Len(log)].rd

PressRaw == PressBytes[3] * 65536 + PressBytes[2] * 256 + PressBytes[1]

\* 2^63 and 10^11
TwoTo63 == <<5808, 5477, 368, 3372, 922>>

TenTo11 == <<0, 0, 1000, 0, 0>>

\* C13: after a successful Sense the pressure is
\* floor(raw * 48828125 / 2) nPa = floor(raw * 10^11 / 4096) nPa for the raw
\* value b2*65536 + b1*256 + b0 of the three bytes read, whatever the chip,
\* the bus and the reading held before; it is not negative, the product
\* raw * 48828125 stays below 2^63, and bytes 00 50 3F give 101300 Pa.
C13_PressureLaw ==
    (op = "Sense" /\ Succeeded) =>
        /\ e.Pressure.neg = FALSE
        /\ e.Pressure.mag =
               NatAdd(NatMul(NatOfInt(PressRaw), NatOfInt(24414062)),
                      NatOfInt(PressRaw \div 2))
        /\ e.Pressure.mag = NatDivSmall(NatMul(NatOfInt(PressRaw), TenTo11), 4096)
        /\ NatLess(NatMul(NatOfInt(PressRaw), NatOfInt(48828125)), TwoTo63)
        /\ PressBytes = <<0, 80, 63>> => e.Pressure.mag = <<0, 0, 3000, 101, 0>>

\* the largest odd raw value, read into a reading that held 1 Pa
C13_Witness ==
    /\ op = "Sense" /\ Succeeded
    /\ PressBytes = <<255, 255, 255>>
    /\ e0.Pressure # QZero
    /\ e.Pressure # e0.Pressure

-----------------------------------------------------------------------------
(* C14 *)

\* the two temperature bytes the successful Sense read
TempBytes == log[Len(log) - 1].rd

TempRaw ==
    LET u == TempBytes[2] * 256 + TempBytes[1] IN
    IF u >= 32768 THEN u - 65536 ELSE u

\* n mK as a quantity in nK
MilliKelvin(n) == Q(FALSE, NatMul(NatOfInt(n), NatOfInt(1000000)))

\* C14: after a successful Sense the temperature is a function of the chip
\* and of the signed 16-bit little-endian raw value only: it is what the
\* conversion stores into a fresh reading, whatever the reading held before.
\* On the LPS331A it is 42.5 degC + raw/480 degC (raw 27600 gives 100 degC)
\* and on the LPS25H raw/100 degC.
C14_TemperatureLaw ==
    (op = "Sense" /\ Succeeded) =>
        /\ e.Temperature = temperatureOf(d, TempRaw, QZero)
        /\ d.chipType = 187 =>
               /\ e.Temperature =
                      QAdd(MilliKelvin(315650),
                           QDivSmall(QMul(QOfInt(TempRaw), QOfInt(25000000)), 12))
               /\ TempRaw = 27600 => e.Temperature = MilliKelvin(373150)
        /\ d.chipType = 189 =>
               e.Temperature =
                   QAdd(MilliKelvin(273150), QMul(QOfInt(TempRaw), QOfInt(10000000)))

-----------------------------------------------------------------------------
(* C15 *)

\* C15: on an SPI handle the first byte of every read transaction has bit 7,
\* the read flag, set.
C15_SPIReadFlag ==
    d.isSPI => \A i \in 1..Len(log) : IsRead(log[i]) => MSBSet(log[i].w[1])

-----------------------------------------------------------------------------
(* C16 *)

\* C16: on an SPI handle every write transaction is one (address, value)
\* pair, two bytes, and its address byte has bit 7 clear.
C16_SPIWritePairs ==
    d.isSPI =>
        \A i \in 1..Len(log) :
            IsWrite(log[i]) => (Len(log[i].w) = 2 /\ ~MSBSet(log[i].w[1]))

\* a one-shot Sense on an LPS331A over SPI that succeeded: four writes
C16_Witness ==
    /\ d.isSPI /\ d.chipType = 187
    /\ op = "Sense" /\ d.oneshotMode /\ Succeeded
    /\ Cardinality(Writes) = 4

-----------------------------------------------------------------------------
(* C17 *)

Failures == {i \in 1..Len(log) : ~log[i].ok}

\* C17: a bus transaction that failed is the last transaction of its call,
\* and the call has returned an error that wraps the failure of the bus.
C17_NoRetry ==
    \A i \in Failures :
        /\ i = Len(log)
        /\ Returned
        /\ ret # <<>>
        /\ ret[Len(ret)] = "tx failed"

\* a one-shot Sense whose second poll read failed
C17_Witness ==
    /\ op = "Sense" /\ d.oneshotMode /\ d.chipType = 177 /\ Returned
    /\ Len(log) = 5
    /\ Failures = {5}
    /\ AbsLog[5] = R(Secondary, 1)

-----------------------------------------------------------------------------
(* C18 *)

\* the reads of a construction that got as far as Init
SnapshotSeq ==
    <<R(15, 1), R(Primary, 1), R(Secondary, 1)>>
    \o (IF HasResConf THEN <<R(16, 1)>> ELSE <<>>)

\* the construction met an unsupported id or a failed read
ConstructionStopped ==
    \/ Failures # {}
    \/ log # <<>> /\ log[1].ok /\ log[1].rd[1] \notin {187, 189, 177}

\* C18: a constructor issues a write only after the identification read
\* returned a supported id and the snapshot reads of the primary, the
\* secondary and (where the chip has one) the resolution register all
\* succeeded, in this order; after an unsupported id or a failed read it
\* returns an error and no handle, and has written nothing.
C18_WriteAfterSnapshot ==
    Constructing =>
        /\ written <=> Writes # {}
        /\ \A i \in Writes :
               /\ i = Len(log)
               /\ d.chipType \in {187, 189, 177}
               /\ SubSeq(AbsLog, 1, i - 1) = SnapshotSeq
               /\ \A j \in 1..(i - 1) : log[j].ok
        /\ (ConstructionStopped /\ Failures \cap Writes = {}) =>
               (Returned /\ ~handle /\ ret # <<>> /\ ~written)

\* construction of an LPS331A in continuous mode stopped at the failed read
\* of the resolution register
C18_Witness ==
    /\ Constructing /\ Returned /\ ~handle
    /\ opts = <<>>
    /\ d.chipType = 187
    /\ Len(log) = 4
    /\ Failures = {4}
    /\ ~written

-----------------------------------------------------------------------------
(* C19 *)

\* the writes of the call that reached the primary control register
PrimaryWrites ==
    {i \in Writes : log[i].ok /\ log[i].w[1] = Primary}

LastPrimaryWrite == CHOOSE i \in PrimaryWrites : \A j \in PrimaryWrites : j <= i

\* C19: when a Sense on a one-shot handle has returned, with or without an
\* error, the value it wrote last to the primary control register has the
\* power bit (bit 7) clear.
C19_PoweredDownBetweenReadings ==
    (op = "Sense" /\ d.oneshotMode /\ Returned /\ PrimaryWrites # {}) =>
        ~MSBSet(log[LastPrimaryWrite].w[2])

-----------------------------------------------------------------------------
(* C20 *)

\* the fields of the handle that construction resolves
Identity(dv) ==
    <<dv.isSPI, dv.name, dv.chipType, dv.ctrl_reg1, dv.ctrl_reg2, dv.res_conf,
      dv.initCmd>>

C20_Step ==
    handle =>
        /\ handle'
        /\ Identity(d') = Identity(d)
        /\ d'.oneshotMode # d.oneshotMode => (op = "Init" /\ pc = "Init")

\* C20: once a constructor has returned a handle, no step of Init, Boot,
\* SWReset, Sense or ShowCtrls changes its bus kind, chip, register
\* addresses or initial control byte; the mode flag changes in Init only.
C20_IdentityFrozen == [][C20_Step]_vars

\* Init(OneShot) has armed an LPS331A handle that was constructed in
\* continuous mode
C20_Witness ==
    /\ handle /\ op = "Init" /\ Succeeded
    /\ Mode(opts) = OneShot /\ d.oneshotMode
    /\ written
    /\ Identity(d) = <<FALSE, "LPS331A", 187, 32, 33, 16, 224>>

-----------------------------------------------------------------------------
(* C21 *)

\* a step of the call in progress, as opposed to a step of its environment
\* or the start of a call
ProgramStep ==
    \/ makeDev
    \/ ShowCtrls_reg1 \/ ShowCtrls_reg2 \/ ShowCtrls_resconf
    \/ Init_body
    \/ setAndCheckCtrlReg2_write \/ setAndCheckCtrlReg2_read
    \/ setAndCheckCtrlReg2_select
    \/ Boot_select
    \/ swResetLPS331_set \/ swResetLPS331_wait1 \/ swResetLPS331_clear
    \/ swResetLPS331_wait2 \/ swResetLPS331_discard
    \/ measureOneshot_powerdown \/ measureOneshot_resconf
    \/ measureOneshot_powerup
    \/ sense_temp \/ sense_press

\* the call in progress cannot go on until its timer expires or its context
\* is cancelled
Waiting ==
    /\ pc # "idle"
    /\ ~(pc = "sac_read" /\ Polls >= MaxPolls)
    /\ ~ENABLED ProgramStep

\* this step is the poll read that shows the flag clear
FlagClearStep == PollReadStep /\ BitAnd(LastTx'.rd[1], value) = 0

\* SWReset returns success, and Sense goes on to its reads, in the step
\* that reads the flag clear
C21_NoWaitAfterClear ==
    (pc \in SacPcs /\ FlagClearStep) =>
        /\ op = "SWReset" => (pc' = "idle" /\ ret' = <<>>)
        /\ op = "Sense" => pc' = "sense_temp"

\* Boot returns success in the step that reads the flag clear
C21_BootNoWaitAfterClear ==
    (pc \in SacPcs /\ FlagClearStep /\ op = "Boot") =>
        (pc' = "idle" /\ ret' = <<>>)

\* Boot enters its own wait in the step that reads the flag clear, and
\* leaves it without a transaction, with success or a cancellation error
C21_BootWaitAfterClear ==
    /\ (pc \in SacPcs /\ FlagClearStep /\ op = "Boot") => pc' = "Boot_select"
    /\ (pc = "Boot_select" /\ pc' # pc) =>
           /\ pc' = "idle"
           /\ log' = log
           /\ ret' = <<>> \/ IsCancelErr(ret')
           /\ ret' = <<>> => timer = "fired"
           /\ IsCancelErr(ret') => ctxDone

\* C21 as stated: a call waits only between two poll reads and in the two
\* waits of the LPS331A reset; once the flag has read clear, Boot, SWReset
\* and the one-shot trigger go on without a wait, and Boot returns success.
C21_Original ==
    /\ [](Waiting => pc \in {"sac_select", "swr_wait1", "swr_wait2"})
    /\ [][C21_NoWaitAfterClear /\ C21_BootNoWaitAfterClear]_vars

\* C21 amended: a call waits only between two poll reads, in the two waits
\* of the LPS331A reset, and in Boot after its Command-and-Poll succeeded;
\* once the flag has read clear, SWReset returns success and the one-shot
\* Sense goes on to its reads without a wait, while Boot waits once more and
\* returns success when that wait expires or a cancellation error when the
\* context is cancelled, with no further transaction.
C21_WaitPoints ==
    /\ [](Waiting => pc \in {"sac_select", "swr_wait1", "swr_wait2", "Boot_select"})
    /\ [][C21_NoWaitAfterClear /\ C21_BootWaitAfterClear]_vars

\* Boot read the flag clear and then returned a cancellation error
C21_Witness ==
    /\ op = "Boot" /\ Returned /\ IsCancelErr(ret)
    /\ cancelledAt = "Boot_select"
    /\ log # <<>> /\ IsRead(LastTx) /\ LastTx.ok
    /\ BitAnd(LastTx.rd[1], 128) = 0

-----------------------------------------------------------------------------
(* C22 *)

\* setAndCheckCtrlReg2 has returned to its caller
SacDone == pc \notin SacPcs

\* the latest transaction is a poll read that shows the flag clear
ClearRead ==
    /\ log # <<>> /\ IsRead(LastTx) /\ LastTx.ok
    /\ BitAnd(LastTx.rd[1], value) = 0

\* Command-and-Poll returns once the flag has read clear or the context has
\* been cancelled
C22_Returns == (<>ClearRead \/ <>ctxDone) => <>SacDone

\* while every transaction succeeds, every poll shows the flag set and the
\* context stays live, Command-and-Poll does not return and reads again and
\* again
C22_PollsForever ==
    [](Failures = {} /\ ~ClearRead /\ ~ctxDone) =>
        ([]~SacDone /\ []<><<setAndCheckCtrlReg2_readAll>>_vars)

\* C22: Command-and-Poll has no retry limit.  Under fair scheduling it
\* returns if the flag eventually reads clear or the context is eventually
\* cancelled; if every transaction succeeds, the flag reads set on every
\* poll and the context is never cancelled, it never returns and issues
\* poll reads forever.
C22_NoRetryLimit == C22_Returns /\ C22_PollsForever

\* as many polls as the record holds have shown the flag set, the context
\* is live and the timer has expired: the next poll is about to be issued
C22_Witness ==
    /\ pc = "sac_select" /\ timer = "fired" /\ ~ctxDone
    /\ Polls = MaxPolls
    /\ Failures = {}
    /\ \A i \in 2..Len(log) : BitAnd(log[i].rd[1], value) # 0
    /\ ENABLED setAndCheckCtrlReg2_select

-----------------------------------------------------------------------------
(* C23 *)

\* a continuous-mode Sense called with a cancelled context, whose reads
\* succeeded, has issued both reads and returned success
C23_SenseCancelled ==
    (/\ op = "Sense" /\ ~d.oneshotMode /\ cancelledAt = "entry"
     /\ Returned /\ Failures = {}) =>
        (Succeeded /\ AbsLog = ReadSeq)

\* setAndCheckCtrlReg2 called with a cancelled context: up to the first
\* poll read it goes on as if the context were live
C23_PollFirstRead ==
    (cancelledAt = "entry" /\ pc \in {"sac_write", "sac_read"} /\ pc' # pc) =>
        /\ Len(log') = Len(log) + 1
        /\ LastTx'.ok =>
              IF pc = "sac_write" THEN pc' = "sac_read"
              ELSE IF BitAnd(LastTx'.rd[1], value) = 0 THEN SacSuccessStep
              ELSE pc' = "sac_select"

\* setAndCheckCtrlReg2 called with a cancelled context: the first wait is
\* left by returning a cancellation error
C23_PollStops ==
    (cancelledAt = "entry" /\ pc = "sac_select" /\ pc' # pc) =>
        (pc' = "idle" /\ IsCancelErr(ret') /\ log' = log /\ Polls = 1)

\* what holds of the code: the transactions up to the first poll read are
\* issued whether or not the context is cancelled
C23_TransactionsNotCancelled ==
    []C23_SenseCancelled /\ [][C23_PollFirstRead]_vars

\* C23: with the context already cancelled before the call, a
\* continuous-mode Sense issues both reads and returns success, and
\* Command-and-Poll issues its write and its first poll read, returns
\* success if that read shows the flag clear, and otherwise returns a
\* cancellation error without a second read.
C23_CancelledBeforeCall ==
    /\ []C23_SenseCancelled
    /\ [][C23_PollFirstRead /\ C23_PollStops]_vars

-----------------------------------------------------------------------------
(* C24 *)

\* a step that leaves a fixed wait of swResetLPS331 during which the
\* context was cancelled returns a cancellation error and issues no
\* transaction
C24_Step ==
    (pc \in {"swr_wait1", "swr_wait2"} /\ cancelledAt = pc /\ pc' # pc) =>
        (pc' = "idle" /\ IsCancelErr(ret') /\ log' = log)

\* the transactions of a reset cancelled in its first wait are the write of
\* 0b100 alone; those of a reset cancelled in its second wait are the two
\* writes, without the flush read
C24_Issued ==
    /\ cancelledAt = "swr_wait1" => AbsLog = <<W(Secondary, 4)>>
    /\ cancelledAt = "swr_wait2" => AbsLog = <<W(Secondary, 4), W(Secondary, 0)>>

\* C24: when the context is cancelled during either fixed wait of the
\* LPS331A reset sequence, SWReset returns a cancellation error and issues
\* no further transaction: after a cancellation in the first wait the write
\* of 0 and the flush read are never issued, after one in the second wait
\* the flush read is never issued.
C24_CancelInFixedWait == []C24_Issued /\ [][C24_Step]_vars

-----------------------------------------------------------------------------
(* C25 *)

\* the messages that begin with the name of the routine that failed
RoutineMessages ==
    { "ShowCtrls: failed to read CTRL_REG1",
      "ShowCtrls: failed to read CTRL_REG2",
      "ShowCtrls: failed to read RES_CONF",
      "SWReset: failed",
      "SWReset: unknown device type",
      "swResetLPS331: failed to write SWReset command",
      "swResetLPS331: failed to wait process SWRESET",
      "swResetLPS331: failed to clear SWReset command",
      "swResetLPS331: failed to wait clearing SWRESET",
      "swResetLPS331: failed to discard STATUS_REG",
      "setAndCheckCtrlReg2",
      "setAndCheckCtrlReg2: failed to write value",
      "setAndCheckCtrlReg2: failed read from CTRL_REG2",
      "measureOneshot: failed to clear CTRL_REG1",
      "measureOneshot: failed to write cmd",
      "measureOneshot: failed to start ONE_SHOT command",
      "measureOneshot: failed to set and check ONE_SHOT[0]",
      "measureOneshot: unknown chip type",
      "sense: failed to read TEMP_OUT",
      "sense: failed to read PRESS_OUT" }

\* an operation on a handle has returned an error
FailedOnHandle == Returned /\ handle /\ ~Constructing /\ ret # <<>>

\* the error begins with the chip's name
C25_ChipNamed == FailedOnHandle => ret[1] = ToLower(d.name)

\* the error names a routine, right after the chip's name if it has one
C25_RoutineNamed ==
    FailedOnHandle =>
        \/ ret[1] \in RoutineMessages
        \/ Len(ret) >= 2 /\ ret[2] \in RoutineMessages

\* C25: every error a public operation returns on a handle whose variant is
\* resolved is wrapped with the chip's name and with the name of the
\* operation it comes from.
C25_ErrorsWrapped == C25_ChipNamed /\ C25_RoutineNamed

-----------------------------------------------------------------------------
(* C26 *)

\* the errors of the branches taken for a chip type that has no case
UnknownVariantErrors ==
    {"SWReset: unknown device type", "measureOneshot: unknown chip type"}

\* the variant of a handle is a supported one, and it has a RES_CONF
\* register exactly if it is an LPS331A or an LPS25H
C26_Variant ==
    handle =>
        /\ d.chipType \in {chipLPS331A, chipLPS25H, chipLPS22H}
        /\ d.res_conf # 0 <=> d.chipType \in {chipLPS331A, chipLPS25H}

\* no call has returned the error of an unknown-variant branch
C26_NoUnknownVariant ==
    \A i \in 1..Len(ret) : ret[i] \notin UnknownVariantErrors

\* C26: a handle returned by a constructor has one of the three supported
\* variants and a non-zero RES_CONF register exactly on LPS331A and LPS25H;
\* hence no operation ever takes the unknown-variant branch of the
\* averaging-code dispatch or of SWReset.
C26_VariantResolved == C26_Variant /\ C26_NoUnknownVariant

\* a one-shot Sense of an LPS22H, which has no RES_CONF register, has
\* gone past the dispatch on the chip type and returned success
C26_Witness ==
    /\ handle /\ op = "Sense" /\ d.oneshotMode /\ Succeeded
    /\ d.chipType = chipLPS22H
    /\ d.res_conf = 0

=============================================================================
